---- MODULE Spec2Model ----
(***************************************************************************)
(* Model of the stock-analysis demo: the two API clients and the two mock  *)
(* generators of src/src/lib/api.ts, and the multi-ticker StockAnalyzer    *)
(* component of src/unnamed/part_001, the single-ticker one of             *)
(* src/unnamed/part_000, and the ImageGeneration component of              *)
(* src/src/components/ImageGeneration.tsx.                                 *)
(*                                                                         *)
(* JavaScript values are records [t, n, s]: t is the type tag, n the       *)
(* numeric payload and s the string payload.  Every number is fixed-point  *)
(* with three decimals: n = 1350 stands for 1.35, n = 60000 for 60.        *)
(***************************************************************************)
EXTENDS Integers, Sequences, FiniteSets

VARIABLES call,        \* the last client / generator call: its inputs and its outcome
          ticker,      \* part_001: useState("") text of the ticker input
          tickers,     \* part_001: useState<string[]>([]) the watchlist
          loading,     \* part_001: useState(false)
          results,     \* part_001: useState([]) list of {stockData, aiRecommendation}
          error,       \* part_001: useState<string | null>(null)
          toast,       \* description of the last toast shown
          run,         \* the last handleAnalyze invocation: its closure, its locals, where it stands
          env,         \* process.env: which of the two API keys are set
          solo,        \* part_000: the single-ticker StockAnalyzer component and its invocations
          image        \* ImageGeneration.tsx: the image component and its invocation

vars == <<call, ticker, tickers, loading, results, error, toast, run, env, solo, image>>

\* the state of the two StockAnalyzer components and their environment
uiVars == <<ticker, tickers, loading, results, error, toast, run, env, solo, image>>

\* the state of the multi-ticker component
multiVars == <<ticker, tickers, loading, results, error, toast, run>>

----------------------------------------------------------------------------
(* JavaScript values *)

Num(k) == [t |-> "number", n |-> k, s |-> ""]
Str(x) == [t |-> "string", n |-> 0, s |-> x]
NaN == [t |-> "NaN", n |-> 0, s |-> ""]
Undefined == [t |-> "undefined", n |-> 0, s |-> ""]
Null == [t |-> "null", n |-> 0, s |-> ""]
True == [t |-> "boolean", n |-> 1, s |-> ""]
EmptyObject == [t |-> "object", n |-> 0, s |-> ""]

\* ToBoolean: what `!x`, `x ? a : b` and `x || y` test.
Truthy(x) ==
    CASE x.t = "number" -> x.n # 0
      [] x.t = "string" -> x.s # ""
      [] x.t = "boolean" -> x.n = 1
      [] x.t = "object" -> TRUE
      [] OTHER -> FALSE

\* StringToNumber on the strings the model uses; every other string is not numeric
StringToNumber(x) ==
    CASE x = "" -> Num(0)
      [] x = "85" -> Num(85000)
      [] x = "150" -> Num(150000)
      [] OTHER -> NaN

\* ToNumber: the coercion Math.max, Math.min and the operator `-` apply.
ToNumber(x) ==
    CASE x.t = "number" -> x
      [] x.t = "string" -> StringToNumber(x.s)
      [] x.t = "boolean" -> Num(x.n * 1000)
      [] x.t = "null" -> Num(0)
      [] OTHER -> NaN

MathMax(a, b) ==
    LET x == ToNumber(a)
        y == ToNumber(b)
    IN  IF x.t = "NaN" \/ y.t = "NaN" THEN NaN
        ELSE IF x.n >= y.n THEN x ELSE y

MathMin(a, b) ==
    LET x == ToNumber(a)
        y == ToNumber(b)
    IN  IF x.t = "NaN" \/ y.t = "NaN" THEN NaN
        ELSE IF x.n <= y.n THEN x ELSE y

\* a - b
Minus(a, b) ==
    LET x == ToNumber(a)
        y == ToNumber(b)
    IN  IF x.t = "NaN" \/ y.t = "NaN" THEN NaN ELSE Num(x.n - y.n)

\* a >= 0 (false for NaN)
GeZero(a) ==
    LET x == ToNumber(a) IN x.t = "number" /\ x.n >= 0

Abs(k) == IF k < 0 THEN -k ELSE k

\* The integer nearest to num / den, a tie going away from zero: the digits
\* Number.prototype.toFixed picks for the exact quotient.
RoundHalfAway(num, den) ==
    LET a == Abs(num)
        b == Abs(den)
        q == a \div b
        r == a % b
        m == IF 2 * r >= b THEN q + 1 ELSE q
    IN  IF (num < 0) # (den < 0) THEN -m ELSE m

\* parseFloat((num / den).toFixed(2)) for integers num, den
FixedQuot(num, den) == Num(10 * RoundHalfAway(num, den))

\* parseFloat(x.toFixed(2)) for a number value x ("NaN" parses to NaN)
ParseFloatToFixed2(x) ==
    IF x.t = "NaN" THEN NaN ELSE FixedQuot(x.n, 10)

\* String.prototype.toUpperCase and trim on the texts the model types
ToUpperCase(x) ==
    CASE x = "aapl" -> "AAPL"
      [] x = "Tsla" -> "TSLA"
      [] x = "msft" -> "MSFT"
      [] OTHER -> x

Trim(x) == IF x = " " THEN "" ELSE x

\* Outcome of a call: a returned value or a thrown Error with its message
Return(v) == [threw |-> FALSE, value |-> v]
Throw(text, tk) == [threw |-> TRUE, message |-> [text |-> text, ticker |-> tk]]

----------------------------------------------------------------------------
(* src/src/lib/api.ts: PolygonService *)

\* x / 0 in JavaScript: NaN for 0 / 0, otherwise an infinity
Infinity == [t |-> "Infinity", n |-> 0, s |-> ""]

\* parseFloat(((a / b) * 100).toFixed(2)) for number values a, b
Percent2(a, b) ==
    LET x == ToNumber(a)
        y == ToNumber(b)
    IN  IF x.t = "NaN" \/ y.t = "NaN" THEN NaN
        ELSE IF y.n = 0 THEN (IF x.n = 0 THEN NaN ELSE Infinity)
        ELSE FixedQuot(x.n * 10000, y.n)

\* line 61 dividing without the test of previousClose
NoGuardChangePercent(change, previousClose) == Percent2(change, previousClose)

\* line 61 with the rounding of line 67:
\*   changePercent = previousClose ? (change / previousClose) * 100 : 0
ChangePercentOf(change, previousClose) ==
    IF Truthy(previousClose) THEN Percent2(change, previousClose)
    ELSE ParseFloatToFixed2(Num(0))

\* One candle of data.results: an object with c, o, h, l, v, or a JSON null
Candle(c, v) ==
    [t |-> "object", c |-> c, o |-> Num(149000), h |-> Num(151000), l |-> Num(147000), v |-> v]
NullCandle ==
    [t |-> "null", c |-> Undefined, o |-> Undefined, h |-> Undefined, l |-> Undefined, v |-> Undefined]

\* The vendor's answer to one fetch: status is "rejected" (fetch rejects),
\* "not_ok" (response.ok false) or "ok"; body is "unparseable" (response.json()
\* rejects), "null" or "object"; hasResults tells whether data.results exists.
VendorResponse(status, body, hasResults, items) ==
    [status |-> status, body |-> body, hasResults |-> hasResults, results |-> items]

\* lines 56-59 without the fallback to the current price
PreviousCloseNoFallback(items, price) ==
    IF Len(items) > 1 THEN items[Len(items) - 1].c ELSE Undefined

\* lines 56-59: the close of the candle before the last, or the price itself
PreviousClose(items, price) ==
    IF Len(items) > 1 THEN items[Len(items) - 1].c ELSE price

\* The try block of getStockData, lines 36-73
getStockDataTry(tk, resp) ==
    IF resp.status = "rejected" THEN Throw("fetch failed", "")
    ELSE IF resp.status = "not_ok" THEN Throw("Failed to fetch data for", tk)
    ELSE IF resp.body = "unparseable" THEN Throw("SyntaxError", "")
    ELSE IF resp.body = "null" THEN Throw("TypeError", "")
    ELSE IF ~resp.hasResults \/ Len(resp.results) = 0 \/ resp.results[Len(resp.results)].t = "null"
         THEN Throw("No results returned for", tk)
    ELSE IF Len(resp.results) > 1 /\ resp.results[Len(resp.results) - 1].t = "null"
         THEN Throw("TypeError", "")
    ELSE LET latest == resp.results[Len(resp.results)]
             price == latest.c
             previousClose == PreviousClose(resp.results, price)
             change == Minus(price, previousClose)
         IN  Return([ticker |-> ToUpperCase(tk),
                     price |-> price,
                     change |-> ParseFloatToFixed2(change),
                     changePercent |-> ChangePercentOf(change, previousClose),
                     volume |-> latest.v,
                     open |-> latest.o,
                     high |-> latest.h,
                     low |-> latest.l,
                     previousClose |-> previousClose])


\* getStockData with a catch block that logs and does not rethrow
getStockDataNoRethrow(tk, resp) ==
    LET r == getStockDataTry(tk, resp)
    IN  IF r.threw THEN Return(Undefined) ELSE r

\* PolygonService.getStockData: the try block and its catch, lines 74-77
getStockData(tk, resp) ==
    LET r == getStockDataTry(tk, resp)
    IN  IF r.threw THEN Throw("Failed to fetch stock data for", tk) ELSE r

\* lines 35-38: the requests one call of getStockData issues: the fetch that
\* opens the try block; no statement repeats it
getStockDataRequests(tk, resp) == 1

----------------------------------------------------------------------------
(* src/src/lib/api.ts: OpenAIService *)

\* The chat endpoint's answer: status and body as for the vendor; hasContent
\* tells whether data.choices?.[0]?.message?.content is a non-empty string;
\* parsed is what JSON.parse(content) gives: kind "syntax_error" (it throws),
\* "null", "primitive" (a number or string) or "object" with the five keys.
ModelReply(rec, conf, reas, risk, target) ==
    [kind |-> "object", recommendation |-> rec, confidence |-> conf,
     reasoning |-> reas, riskLevel |-> risk, priceTarget |-> target]
NonObjectReply(kind) ==
    [kind |-> kind, recommendation |-> Undefined, confidence |-> Undefined,
     reasoning |-> Undefined, riskLevel |-> Undefined, priceTarget |-> Undefined]

ChatResponse(status, body, hasContent, parsed) ==
    [status |-> status, body |-> body, hasContent |-> hasContent, parsed |-> parsed]

\* x.toLocaleString() throws a TypeError on undefined and null
HasToLocaleString(x) == x.t \notin {"undefined", "null"}

\* lines 94-123: getStockRecommendation builds its prompt, which reads
\* stockData.volume.toLocaleString() (line 102), before it issues its request
PromptBuilds(stockData) == HasToLocaleString(stockData.volume)

\* lines 125-147: the requests one call of getStockRecommendation issues: the
\* fetch of line 125, once the prompt is built; no statement repeats it
getStockRecommendationRequests(stockData, resp) ==
    IF PromptBuilds(stockData) THEN 1 ELSE 0

\* line 174: Math.min(Math.max(recommendation.confidence, 60), 100)
Clamp(c) == MathMin(MathMax(c, Num(60000)), Num(100000))

\* line 176 with the default applied to every reply
AlwaysMedium(r) == Str("MEDIUM")

\* line 176: recommendation.riskLevel || "MEDIUM"
RiskLevelOf(r) == IF Truthy(r) THEN r ELSE Str("MEDIUM")

\* lines 164-168 with the check of reasoning missing
ValidatedNoReasoning(p) == Truthy(p.recommendation) /\ Truthy(p.confidence)

\* lines 164-168: the presence check
Validated(p) ==
    Truthy(p.recommendation) /\ Truthy(p.confidence) /\ Truthy(p.reasoning)

\* The try block of getStockRecommendation, lines 94-178
getStockRecommendationTry(stockData, resp) ==
    IF ~HasToLocaleString(stockData.volume) THEN Throw("TypeError", "")
    ELSE IF resp.status = "rejected" THEN Throw("fetch failed", "")
    ELSE IF resp.status = "not_ok" THEN Throw("OpenAI API error", "")
    ELSE IF resp.body = "unparseable" THEN Throw("SyntaxError", "")
    ELSE IF resp.body = "null" THEN Throw("TypeError", "")
    ELSE IF ~resp.hasContent THEN Throw("No response from OpenAI", "")
    ELSE IF resp.parsed.kind = "syntax_error" THEN Throw("SyntaxError", "")
    ELSE IF resp.parsed.kind = "null" THEN Throw("TypeError", "")
    ELSE IF ~Validated(resp.parsed) THEN Throw("Invalid response format from OpenAI", "")
    ELSE Return([recommendation |-> resp.parsed.recommendation,
                 confidence |-> Clamp(resp.parsed.confidence),
                 reasoning |-> resp.parsed.reasoning,
                 riskLevel |-> RiskLevelOf(resp.parsed.riskLevel),
                 priceTarget |-> resp.parsed.priceTarget])

\* OpenAIService.getStockRecommendation: the try block and its catch, lines 179-182
getStockRecommendation(stockData, resp) ==
    LET r == getStockRecommendationTry(stockData, resp)
    IN  IF r.threw THEN Throw("Failed to generate AI recommendation", "") ELSE r

----------------------------------------------------------------------------
(* src/src/lib/api.ts: the mock generators.  A draw k stands for the value *)
(* k / 100000 of one Math.random() call, 0 <= k < 100000.                  *)

\* Math.floor(Math.random() * len) for a draw k
FloorTimes(k, len) == (k * len) \div 100000

\* line 195 dividing the change by itself
MockChangePercentOfChange(basePrice, change) == Percent2(Num(change), Num(change))

\* line 195: parseFloat(((change / basePrice) * 100).toFixed(2))
MockChangePercent(basePrice, change) == Percent2(Num(change), Num(basePrice))

\* createMockStockData, lines 187-203 (marketCap, which nothing reads, is left out)
createMockStockData(tk, rBase, rChange, rVolume) ==
    LET basePrice == rBase * 5 + 50000
        change == ((rChange - 50000) * 20) \div 100
    IN  [ticker |-> ToUpperCase(tk),
         price |-> ParseFloatToFixed2(Num(basePrice)),
         change |-> ParseFloatToFixed2(Num(change)),
         changePercent |-> MockChangePercent(basePrice, change),
         volume |-> Num(FloorTimes(rVolume, 10000000) * 1000),
         open |-> FixedQuot(basePrice * 98, 1000),
         high |-> FixedQuot(basePrice * 105, 1000),
         low |-> FixedQuot(basePrice * 95, 1000),
         previousClose |-> ParseFloatToFixed2(Num(basePrice - change))]

recommendations == <<"BUY", "SELL", "HOLD">>
riskLevels == <<"LOW", "MEDIUM", "HIGH">>

\* line 222: Math.floor(Math.random() * 40 + 60)
MockConfidence(k) == Num((FloorTimes(k, 40) + 60) * 1000)

\* line 221: recommendations[Math.floor(Math.random() * recommendations.length)]
MockCategory(k) == Str(recommendations[FloorTimes(k, Len(recommendations)) + 1])

\* lines 223-231: the templated reasoning, by the two directions it echoes
MockReasoning(stockData) ==
    Str(CASE GeZero(stockData.changePercent) /\ GeZero(stockData.change) -> "positive momentum, upward pressure"
          [] GeZero(stockData.changePercent) /\ ~GeZero(stockData.change) -> "positive momentum, downward pressure"
          [] ~GeZero(stockData.changePercent) /\ GeZero(stockData.change) -> "negative momentum, upward pressure"
          [] OTHER -> "negative momentum, downward pressure")

\* lines 232-234: parseFloat((price * (1 + (Math.random() - 0.5) * 0.3)).toFixed(2)),
\* exact for the draws that are multiples of 1000
MockPriceTarget(price, k) ==
    LET x == ToNumber(price)
    IN  IF x.t = "NaN" THEN NaN
        ELSE FixedQuot(x.n * (1000 + 3 * ((k - 50000) \div 1000)), 10000)

\* createMockRecommendation, lines 205-237; volume.toLocaleString() throws a
\* TypeError when the snapshot has no volume
createMockRecommendation(stockData, rRec, rConf, rTarget, rRisk) ==
    IF ~HasToLocaleString(stockData.volume) THEN Throw("TypeError", "")
    ELSE Return([recommendation |-> MockCategory(rRec),
                 confidence |-> MockConfidence(rConf),
                 reasoning |-> MockReasoning(stockData),
                 priceTarget |-> MockPriceTarget(stockData.price, rTarget),
                 riskLevel |-> Str(riskLevels[FloorTimes(rRisk, Len(riskLevels)) + 1])])

----------------------------------------------------------------------------
(* Inputs of the client calls *)

ApiTickers == {"aapl", "AAPL", "TSLA"}

\* the close of a candle: absent, null, zero, or a price
CloseValues ==
    {Undefined, Null, Num(0), Num(1000), Num(100005), Num(148000), Num(150000)}

\* the volume of a candle: absent or a share count
VolumeValues == {Undefined, Num(1200000)}

FailedVendorResponses ==
    {VendorResponse("rejected", "object", FALSE, <<>>),
     VendorResponse("not_ok", "object", FALSE, <<>>),
     VendorResponse("ok", "unparseable", FALSE, <<>>),
     VendorResponse("ok", "null", FALSE, <<>>),
     VendorResponse("ok", "object", FALSE, <<>>),
     VendorResponse("ok", "object", TRUE, <<>>),
     VendorResponse("ok", "object", TRUE, <<NullCandle>>),
     VendorResponse("ok", "object", TRUE, <<NullCandle, Candle(Num(150000), Num(1200000))>>)}

VendorResponses ==
    FailedVendorResponses
    \cup {VendorResponse("ok", "object", TRUE, <<Candle(c, v)>>) :
             c \in CloseValues, v \in VolumeValues}
    \cup {VendorResponse("ok", "object", TRUE, <<Candle(p, Num(900000)), Candle(c, v)>>) :
             p \in CloseValues, c \in CloseValues, v \in VolumeValues}

RecommendationValues ==
    {Undefined, Str(""), Str("BUY"), Str("SELL"), Str("HOLD"), Str("STRONG BUY")}

ConfidenceValues ==
    {Undefined, Null, Num(0), Num(-5000), Num(59999), Num(60000), Num(72500),
     Num(100000), Num(150000), Str("85"), Str("high"), True, EmptyObject}

ReasoningValues == {Undefined, Str(""), Str("Momentum is solid.")}

RiskLevelValues == {Undefined, Null, Str(""), Num(0), Str("LOW"), Str("HIGH")}

PriceTargetValues == {Undefined, Num(155000)}

ModelReplies ==
    {ModelReply(a, b, c, d, e) :
        a \in RecommendationValues, b \in ConfidenceValues, c \in ReasoningValues,
        d \in RiskLevelValues, e \in PriceTargetValues}

FailedChatResponses ==
    {ChatResponse("rejected", "object", FALSE, NonObjectReply("null")),
     ChatResponse("not_ok", "object", FALSE, NonObjectReply("null")),
     ChatResponse("ok", "unparseable", FALSE, NonObjectReply("null")),
     ChatResponse("ok", "null", FALSE, NonObjectReply("null")),
     ChatResponse("ok", "object", FALSE, NonObjectReply("null")),
     ChatResponse("ok", "object", TRUE, NonObjectReply("syntax_error")),
     ChatResponse("ok", "object", TRUE, NonObjectReply("null")),
     ChatResponse("ok", "object", TRUE, NonObjectReply("primitive"))}

ChatResponses ==
    FailedChatResponses \cup {ChatResponse("ok", "object", TRUE, p) : p \in ModelReplies}

\* draws of Math.random(), in 1/100000: multiples of 5
BaseDraws == {0, 10000, 12345, 99995}
ChangeDraws == {0, 12345, 50000, 75000, 99995}
VolumeDraws == {0, 120}
CategoryDraws == {0, 33333, 50000, 66667, 99999}
ConfidenceDraws == {0, 50000, 99999}
TargetDraws == {0, 50000, 99000}

\* snapshots a caller passes on: two vendor snapshots (one without volume) and a mock one
SampleSnapshots ==
    {getStockDataTry("AAPL", VendorResponse("ok", "object", TRUE,
                        <<Candle(Num(148000), Num(900000)), Candle(Num(150000), v)>>)).value :
        v \in VolumeValues}
    \cup {createMockStockData("TSLA", 12345, 75000, 120)}

----------------------------------------------------------------------------
(* The client calls: each behaviour makes one call, on inputs it draws *)

NoCall == [op |-> "none"]

CallGetStockData ==
    /\ call = NoCall
    /\ \E tk \in ApiTickers, resp \in VendorResponses :
          call' = [op |-> "getStockData", ticker |-> tk, resp |-> resp,
                   out |-> getStockData(tk, resp),
                   requests |-> getStockDataRequests(tk, resp)]
    /\ UNCHANGED uiVars

CallGetStockRecommendation ==
    /\ call = NoCall
    /\ \E sd \in SampleSnapshots, resp \in ChatResponses :
          call' = [op |-> "getStockRecommendation", stockData |-> sd, resp |-> resp,
                   out |-> getStockRecommendation(sd, resp),
                   requests |-> getStockRecommendationRequests(sd, resp)]
    /\ UNCHANGED uiVars

CallCreateMockStockData ==
    /\ call = NoCall
    /\ \E tk \in ApiTickers, b \in BaseDraws, c \in ChangeDraws, v \in VolumeDraws :
          call' = [op |-> "createMockStockData", ticker |-> tk,
                   basePrice |-> b * 5 + 50000, change |-> ((c - 50000) * 20) \div 100,
                   out |-> Return(createMockStockData(tk, b, c, v))]
    /\ UNCHANGED uiVars

CallCreateMockRecommendation ==
    /\ call = NoCall
    /\ \E sd \in SampleSnapshots, a \in CategoryDraws, b \in ConfidenceDraws,
          c \in TargetDraws, d \in CategoryDraws :
          call' = [op |-> "createMockRecommendation", stockData |-> sd,
                   out |-> createMockRecommendation(sd, a, b, c, d)]
    /\ UNCHANGED uiVars

\* handleAnalyze has not been invoked yet
NoRun ==
    [pc |-> "idle", tickers |-> <<>>, i |-> 0, analysisResults |-> <<>>,
     stockData |-> Undefined, requested |-> <<>>, errorsSet |-> 0]

\* part_000 lines 18-22 as the component mounts; runs holds the handleAnalyze
\* invocations that are suspended at an await, event tells what happened last
SoloMounted ==
    [ticker |-> "", loading |-> FALSE, stockData |-> Null, aiRecommendation |-> Null,
     error |-> Null, toast |-> "", runs |-> <<>>,
     event |-> [kind |-> "mounted", before |-> <<Null, Null>>]]

\* ImageGeneration.tsx lines 16-18 (first copy) and 99-101 (second copy) as
\* the component mounts; pc tells where handleGenerateImage stands
ImageMounted(copy) ==
    [copy |-> copy, prompt |-> "", imageUrl |-> Null, loading |-> FALSE,
     pc |-> "idle", attempts |-> 0]

InitApi ==
    /\ call = NoCall
    /\ ticker = ""
    /\ tickers = <<>>
    /\ loading = FALSE
    /\ results = <<>>
    /\ error = Null
    /\ toast = ""
    /\ run = NoRun
    /\ env = [polygon |-> FALSE, openai |-> FALSE]
    /\ solo = SoloMounted
    /\ image = ImageMounted(1)

NextApi ==
    \/ CallGetStockData
    \/ CallGetStockRecommendation
    \/ CallCreateMockStockData
    \/ CallCreateMockRecommendation

SpecApi == InitApi /\ [][NextApi]_vars

----------------------------------------------------------------------------
(* Claims about the clients and the generators, checked under SpecApi *)

Returned(op) == call.op = op /\ ~call.out.threw

\* C1: every Recommendation returned by getStockRecommendation or
\* createMockRecommendation has a confidence between 60 and 100 inclusive,
\* whatever value the model reply carried.
C1_ConfidenceInRange ==
    (Returned("getStockRecommendation") \/ Returned("createMockRecommendation")) =>
        /\ call.out.value.confidence.t = "number"
        /\ call.out.value.confidence.n >= 60000
        /\ call.out.value.confidence.n <= 100000

\* a reply object that lacks one of the three required keys
LacksKey(p) ==
    \/ p.recommendation = Undefined
    \/ p.confidence = Undefined
    \/ p.reasoning = Undefined

\* C2: when the endpoint errors, returns no content or text that is not JSON,
\* or the reply lacks one of recommendation, confidence, reasoning,
\* getStockRecommendation throws its error and returns no record; a record it
\* returns has all three fields.
C2_MissingKeyFails ==
    call.op = "getStockRecommendation" =>
        /\ (\/ call.resp.status # "ok"
            \/ call.resp.body # "object"
            \/ ~call.resp.hasContent
            \/ call.resp.parsed.kind # "object"
            \/ LacksKey(call.resp.parsed))
           => (/\ call.out.threw
               /\ call.out.message.text = "Failed to generate AI recommendation")
        /\ ~call.out.threw => ~LacksKey(call.out.value)

\* C2 witness: a reply with recommendation and confidence but no reasoning was refused
C2_Witness ==
    /\ call.op = "getStockRecommendation"
    /\ call.resp.status = "ok" /\ call.resp.hasContent /\ call.resp.parsed.kind = "object"
    /\ call.resp.parsed.recommendation = Str("BUY")
    /\ call.resp.parsed.confidence = Num(72500)
    /\ call.resp.parsed.reasoning = Undefined
    /\ HasToLocaleString(call.stockData.volume)
    /\ call.out.threw

\* C3: for every snapshot getStockData returns, changePercent is
\* (price - previousClose) / previousClose * 100 rounded to the nearest hundredth
\* when previousClose is a non-zero number, and 0 when previousClose is 0 or
\* absent; a well-formed body never makes the call throw; price 150.00 with
\* previousClose 148.00 gives change 2.00 and changePercent 1.35.
C3_ChangePercent ==
    call.op = "getStockData" =>
        /\ ~call.out.threw =>
              LET snap == call.out.value
                  prev == snap.previousClose
                  cp == snap.changePercent
              IN  /\ (prev.t = "number" /\ prev.n # 0 /\ snap.price.t = "number") =>
                        /\ cp.t = "number"
                        /\ cp.n % 10 = 0
                        /\ 2 * Abs((cp.n \div 10) * prev.n - (snap.price.n - prev.n) * 10000)
                              <= Abs(prev.n)
                  /\ (prev = Num(0) \/ prev = Undefined \/ prev = Null) => cp = Num(0)
                  /\ (snap.price = Num(150000) /\ prev = Num(148000)) =>
                        (snap.change = Num(2000) /\ cp = Num(1350))
        /\ (/\ call.resp.status = "ok" /\ call.resp.body = "object" /\ call.resp.hasResults
            /\ Len(call.resp.results) > 0
            /\ \A i \in 1..Len(call.resp.results) : call.resp.results[i].t = "object")
           => ~call.out.threw

\* C3 witness: a snapshot with a zero previous close was returned
C3_Witness ==
    /\ Returned("getStockData")
    /\ call.out.value.previousClose = Num(0)
    /\ call.out.value.price = Num(150000)
    /\ call.out.value.changePercent = Num(0)

\* C4: getStockData throws an error naming the requested ticker whenever the
\* vendor's status is not a success or the body's results are missing or
\* empty, and returns no snapshot then.
C4_FetchFailureNamesTicker ==
    (/\ call.op = "getStockData"
     /\ \/ call.resp.status = "not_ok"
        \/ (call.resp.status = "ok" /\ call.resp.body = "object"
            /\ (~call.resp.hasResults \/ Len(call.resp.results) = 0)))
    => (call.out.threw /\ call.out.message.ticker = call.ticker)

\* C4 witness: a non-success status made the call for "aapl" throw
C4_Witness ==
    /\ call.op = "getStockData"
    /\ call.ticker = "aapl"
    /\ call.resp.status = "not_ok"
    /\ call.out.threw

C8_RiskLevelDefault ==
    Returned("getStockRecommendation") =>
        LET given == call.resp.parsed.riskLevel
        IN  IF given \in {Undefined, Null, Str(""), Num(0)}
            THEN call.out.value.riskLevel = Str("MEDIUM")
            ELSE call.out.value.riskLevel = given

\* C8 witness: a reply without riskLevel was returned as MEDIUM
C8_Witness ==
    /\ Returned("getStockRecommendation")
    /\ call.resp.parsed.riskLevel = Undefined
    /\ call.out.value.riskLevel = Str("MEDIUM")

\* C9: every Recommendation produced, by getStockRecommendation or by
\* createMockRecommendation, has recommendation BUY, SELL or HOLD.
C9_RecommendationEnum ==
    (Returned("getStockRecommendation") \/ Returned("createMockRecommendation")) =>
        call.out.value.recommendation \in {Str("BUY"), Str("SELL"), Str("HOLD")}

\* C10: every snapshot of createMockStockData has change = price - previousClose
\* and changePercent = change / previousClose * 100, each to within one hundredth.
C10_MockSnapshotInvariant ==
    Returned("createMockStockData") =>
        LET snap == call.out.value
        IN  /\ Abs(snap.change.n - (snap.price.n - snap.previousClose.n)) <= 10
            /\ snap.previousClose.n # 0 =>
                 Abs((snap.changePercent.n \div 10) * snap.previousClose.n
                     - snap.change.n * 10000) <= Abs(snap.previousClose.n)

\* C14: createMockRecommendation returns a recommendation for every snapshot
\* it can be given, from createMockStockData or from getStockData.
C14_MockRecommendationNeverFails ==
    call.op = "createMockRecommendation" => ~call.out.threw

IsDefinedNumber(x) == x.t \notin {"undefined", "NaN"}

\* C15: every snapshot of createMockStockData carries its ticker, and its
\* price, change, changePercent and volume are defined and not NaN.
C15_MockSnapshotDefined ==
    call.op = "createMockStockData" =>
        /\ ~call.out.threw
        /\ call.out.value.ticker = ToUpperCase(call.ticker)
        /\ IsDefinedNumber(call.out.value.price)
        /\ IsDefinedNumber(call.out.value.change)
        /\ IsDefinedNumber(call.out.value.changePercent)
        /\ IsDefinedNumber(call.out.value.volume)

\* a snapshot drawn with a change of zero and the smallest volume
C15_Witness ==
    /\ call.op = "createMockStockData"
    /\ call.change = 0
    /\ call.out.value.changePercent = Num(0)
    /\ call.out.value.volume = Num(0)

\* C20: each call of getStockData and of getStockRecommendation issues exactly
\* one request, whether it returns or fails, and a failed call throws one error.
C20_OneRequestPerCall ==
    call.op \in {"getStockData", "getStockRecommendation"} => call.requests = 1

----------------------------------------------------------------------------
(* src/unnamed/part_001: the multi-ticker StockAnalyzer component *)

\* what the user can type into the ticker input
MaxSymbols == 2
SymbolTexts == <<{"aapl", "AAPL"}, {"Tsla", "TSLA"}, {"msft", "MSFT"}>>
InputTexts == {"", " "} \cup UNION {SymbolTexts[i] : i \in 1..MaxSymbols}

Range(list) == {list[i] : i \in 1..Len(list)}

\* tickers.includes(x)
Includes(list, x) == x \in Range(list)

\* tickers.filter((t) => t !== x)
Filter(list, x) == SelectSeq(list, LAMBDA t : t # x)

\* line 214: onChange={(e) => setTicker(e.target.value.toUpperCase())}
onChange ==
    /\ \E text \in InputTexts : ticker' = ToUpperCase(text)
    /\ UNCHANGED <<call, tickers, loading, results, error, toast, run, env, solo, image>>

\* addTicker without the check of line 58
addTickerNoDedup ==
    /\ IF Trim(ticker) = ""
       THEN /\ toast' = "Please enter a stock ticker symbol"
            /\ UNCHANGED <<ticker, tickers>>
       ELSE /\ tickers' = Append(tickers, ToUpperCase(ticker))
            /\ ticker' = ""
            /\ toast' = "added to analysis list"
    /\ UNCHANGED <<call, loading, results, error, run, env, solo, image>>

\* addTicker, lines 47-73 (the Add button and the Enter key of the input)
addTicker ==
    /\ IF Trim(ticker) = ""
       THEN /\ toast' = "Please enter a stock ticker symbol"
            /\ UNCHANGED <<ticker, tickers>>
       ELSE IF Includes(tickers, ToUpperCase(ticker))
       THEN /\ toast' = "Ticker already added"
            /\ UNCHANGED <<ticker, tickers>>
       ELSE /\ tickers' = Append(tickers, ToUpperCase(ticker))
            /\ ticker' = ""
            /\ toast' = "added to analysis list"
    /\ UNCHANGED <<call, loading, results, error, run, env, solo, image>>

\* removeTicker taking the ticker out of the watchlist of the run in progress too
removeTickerFromRun ==
    /\ \E tickerToRemove \in Range(tickers) :
          /\ tickers' = Filter(tickers, tickerToRemove)
          /\ run' = [run EXCEPT !.tickers = Filter(@, tickerToRemove)]
    /\ UNCHANGED <<call, ticker, loading, results, error, toast, env, solo, image>>

\* removeTicker, lines 75-77, from the X button of a listed ticker (lines 234-249)
removeTicker ==
    /\ \E tickerToRemove \in Range(tickers) : tickers' = Filter(tickers, tickerToRemove)
    /\ UNCHANGED <<call, ticker, loading, results, error, toast, run, env, solo, image>>

\* lines 100-103: process.env.VITE_POLYGON_API_KEY && process.env.VITE_OPENAI_API_KEY
KeysPresent == env.polygon /\ env.openai

\* the vendor's answers during a run
RunVendorResponses ==
    {VendorResponse("not_ok", "object", FALSE, <<>>),
     VendorResponse("ok", "object", TRUE, <<>>),
     VendorResponse("ok", "object", TRUE, <<Candle(Num(150000), Undefined)>>),
     VendorResponse("ok", "object", TRUE,
                    <<Candle(Num(148000), Num(900000)), Candle(Num(150000), Num(1200000))>>)}

\* the draws of the generators during a run
RunSnapshotDraws == {<<12345, 75000, 120>>}
RunRecommendationDraws == {<<0, 50000, 50000, 0>>, <<99999, 99999, 99000, 50000>>}

\* analysisResults.push(item) putting the item first
Unshift(list, item) == <<item>> \o list

\* lines 125-128: analysisResults.push({stockData, aiRecommendation})
Push(list, item) == Append(list, item)

\* The loop issuing the requests of all its tickers before it awaits the first
SuspendFanOut(list, i, ar, requested, d) ==
    IF KeysPresent
    THEN [pc |-> "awaitFetch", tickers |-> list, i |-> i, analysisResults |-> ar,
          stockData |-> Undefined, requested |-> list, errorsSet |-> 0]
    ELSE [pc |-> "awaitDelay", tickers |-> list, i |-> i, analysisResults |-> ar,
          stockData |-> createMockStockData(list[i], d[1], d[2], d[3]),
          requested |-> requested, errorsSet |-> 0]

\* The invocation suspended at the await of iteration i (line 112 or line 121)
\* over the watchlist `list` of its closure: with both keys, getStockData has
\* issued its request; without, createMockStockData has run and the timer is set.
Suspend(list, i, ar, requested, d) ==
    IF KeysPresent
    THEN [pc |-> "awaitFetch", tickers |-> list, i |-> i, analysisResults |-> ar,
          stockData |-> Undefined, requested |-> Append(requested, list[i]), errorsSet |-> 0]
    ELSE [pc |-> "awaitDelay", tickers |-> list, i |-> i, analysisResults |-> ar,
          stockData |-> createMockStockData(list[i], d[1], d[2], d[3]),
          requested |-> requested, errorsSet |-> 0]

\* handleAnalyze without the setResults([]) of line 91
handleAnalyzeKeepResults ==
    /\ ~(loading \/ Len(tickers) = 0)
    /\ IF Len(tickers) = 0
       THEN /\ toast' = "Please add at least one stock ticker"
            /\ UNCHANGED <<loading, error, results, run>>
       ELSE /\ loading' = TRUE
            /\ error' = Null
            /\ \E d \in RunSnapshotDraws : run' = Suspend(tickers, 1, <<>>, <<>>, d)
            /\ UNCHANGED <<toast, results>>
    /\ UNCHANGED <<call, ticker, tickers, env, solo, image>>

\* handleAnalyze, lines 79-123, from the click of the Analyze button (enabled
\* by line 257) up to the first await
handleAnalyze ==
    /\ ~(loading \/ Len(tickers) = 0)
    /\ IF Len(tickers) = 0
       THEN /\ toast' = "Please add at least one stock ticker"
            /\ UNCHANGED <<loading, error, results, run>>
       ELSE /\ loading' = TRUE
            /\ error' = Null
            /\ results' = <<>>
            /\ \E d \in RunSnapshotDraws : run' = Suspend(tickers, 1, <<>>, <<>>, d)
            /\ UNCHANGED toast
    /\ UNCHANGED <<call, ticker, tickers, env, solo, image>>

\* handleAnalyze showing in its catch block what the run had gathered
ProceedKeepPartial(item) ==
    IF item.threw
    THEN /\ error' = item.message
         /\ toast' = "Unable to fetch stock data or generate recommendations"
         /\ loading' = FALSE
         /\ run' = [run EXCEPT !.pc = "failed", !.errorsSet = @ + 1]
         /\ results' = run.analysisResults
    ELSE IF run.i < Len(run.tickers)
    THEN /\ \E d \in RunSnapshotDraws :
               run' = Suspend(run.tickers, run.i + 1, Push(run.analysisResults, item.value),
                              run.requested, d)
         /\ UNCHANGED <<loading, results, error, toast>>
    ELSE /\ results' = Push(run.analysisResults, item.value)
         /\ toast' = "Generated recommendations"
         /\ loading' = FALSE
         /\ run' = [run EXCEPT !.pc = "complete",
                               !.analysisResults = Push(run.analysisResults, item.value)]
         /\ UNCHANGED error

\* The rest of handleAnalyze once iteration run.i has produced `item` (a thrown
\* error, or the pair to push): lines 125-153
Proceed(item) ==
    IF item.threw
    THEN /\ error' = item.message
         /\ toast' = "Unable to fetch stock data or generate recommendations"
         /\ loading' = FALSE
         /\ run' = [run EXCEPT !.pc = "failed", !.errorsSet = @ + 1]
         /\ UNCHANGED results
    ELSE IF run.i < Len(run.tickers)
    THEN /\ \E d \in RunSnapshotDraws :
               run' = Suspend(run.tickers, run.i + 1, Push(run.analysisResults, item.value),
                              run.requested, d)
         /\ UNCHANGED <<loading, results, error, toast>>
    ELSE /\ results' = Push(run.analysisResults, item.value)
         /\ toast' = "Generated recommendations"
         /\ loading' = FALSE
         /\ run' = [run EXCEPT !.pc = "complete",
                               !.analysisResults = Push(run.analysisResults, item.value)]
         /\ UNCHANGED error

\* lines 112-113 and 125-128: the pair of one iteration on the real path; `by`
\* records which function produced each half of the pair
RealPair(tk, resp, d) ==
    LET sd == getStockData(tk, resp)
    IN  IF sd.threw THEN sd
        ELSE LET rec == createMockRecommendation(sd.value, d[1], d[2], d[3], d[4])
             IN  IF rec.threw THEN rec
                 ELSE Return([stockData |-> sd.value, aiRecommendation |-> rec.value,
                              by |-> [stockData |-> "PolygonService.getStockData",
                                      aiRecommendation |-> "createMockRecommendation"]])

\* lines 119-128: the pair of one iteration on the mock path
MockPair(sd, d) ==
    LET rec == createMockRecommendation(sd, d[1], d[2], d[3], d[4])
    IN  IF rec.threw THEN rec
        ELSE Return([stockData |-> sd, aiRecommendation |-> rec.value,
                     by |-> [stockData |-> "createMockStockData",
                             aiRecommendation |-> "createMockRecommendation"]])

\* the vendor answers the request of line 112 and handleAnalyze resumes
resumeFetch ==
    /\ run.pc = "awaitFetch"
    /\ \E resp \in RunVendorResponses, d \in RunRecommendationDraws :
          Proceed(RealPair(run.tickers[run.i], resp, d))
    /\ UNCHANGED <<call, ticker, tickers, env, solo, image>>

\* the timer of line 121 fires and handleAnalyze resumes
resumeDelay ==
    /\ run.pc = "awaitDelay"
    /\ \E d \in RunRecommendationDraws : Proceed(MockPair(run.stockData, d))
    /\ UNCHANGED <<call, ticker, tickers, env, solo, image>>

Init ==
    /\ call = NoCall
    /\ ticker = ""
    /\ tickers = <<>>
    /\ loading = FALSE
    /\ results = <<>>
    /\ error = Null
    /\ toast = ""
    /\ run = NoRun
    /\ env \in [polygon : BOOLEAN, openai : BOOLEAN]
    /\ solo = SoloMounted
    /\ image = ImageMounted(1)

Next ==
    \/ onChange
    \/ addTicker
    \/ removeTicker
    \/ handleAnalyze
    \/ resumeFetch
    \/ resumeDelay

Spec == Init /\ [][Next]_vars

----------------------------------------------------------------------------
(* Claims about the multi-ticker component, checked under Spec *)

Running == run.pc \in {"awaitFetch", "awaitDelay"}

\* C5: a run that completes leaves one (snapshot, recommendation) entry per
\* ticker of the watchlist the run was started on, in that order, each
\* snapshot's ticker the uppercase form of the watchlist ticker.
C5_OneEntryPerTicker ==
    /\ [](run.pc = "complete" =>
            /\ Len(results) = Len(run.tickers)
            /\ \A i \in 1..Len(results) :
                  results[i].stockData.ticker = ToUpperCase(run.tickers[i]))
    /\ [][(~Running /\ Running') => run.tickers' = tickers]_vars
    /\ [][Running => (run.tickers' = run.tickers)]_vars

\* C5 witness: AAPL then TSLA, both mocked, completed with two entries in that order
C5_Witness ==
    /\ run.pc = "complete"
    /\ ~KeysPresent
    /\ run.tickers = <<"AAPL", "TSLA">>
    /\ Len(results) = 2
    /\ results[1].stockData.ticker = "AAPL"
    /\ results[2].stockData.ticker = "TSLA"

\* C6: when the k-th ticker of a run fails, requests were issued for the first
\* k tickers only, the result list is empty and exactly one error message was
\* set for the run.
C6_FailureAbortsBatch ==
    run.pc = "failed" =>
        /\ run.requested = SubSeq(run.tickers, 1, run.i)
        /\ results = <<>>
        /\ run.errorsSet = 1
        /\ error # Null
        /\ ~loading

\* C6 witness: the first of two tickers failed and the second was never requested
C6_Witness ==
    /\ run.pc = "failed"
    /\ run.tickers = <<"AAPL", "TSLA">>
    /\ run.i = 1
    /\ run.requested = <<"AAPL">>
    /\ results = <<>>
    /\ error = [text |-> "Failed to fetch stock data for", ticker |-> "AAPL"]

NoDuplicates(list) ==
    \A i, j \in 1..Len(list) : list[i] = list[j] => i = j

\* C7: the watchlist never holds a duplicate or a ticker that is not uppercase,
\* and an addTicker of a ticker already present leaves the watchlist unchanged.
C7_WatchlistSet ==
    /\ [](NoDuplicates(tickers) /\ \A t \in Range(tickers) : ToUpperCase(t) = t)
    /\ [][(addTicker /\ Includes(tickers, ToUpperCase(ticker))) => tickers' = tickers]_vars

\* C7 witness: TSLA was typed again with both tickers listed, and refused
C7_Witness ==
    /\ tickers = <<"AAPL", "TSLA">>
    /\ ticker = "TSLA"
    /\ toast = "Ticker already added"

\* C13: for each ticker of a run, with both keys present the snapshot comes
\* from PolygonService.getStockData and the recommendation from
\* OpenAIService.getStockRecommendation; with a key absent both come from the
\* mock generators and no client request is made.
C13_SourcesFollowKeys ==
    \A k \in 1..Len(run.analysisResults) :
        IF KeysPresent
        THEN run.analysisResults[k].by =
                 [stockData |-> "PolygonService.getStockData",
                  aiRecommendation |-> "OpenAIService.getStockRecommendation"]
        ELSE /\ run.analysisResults[k].by =
                    [stockData |-> "createMockStockData",
                     aiRecommendation |-> "createMockRecommendation"]
             /\ run.requested = <<>>

\* C18: the work of a run is sequential: while the run waits on its i-th
\* ticker, the pairs of the i-1 tickers before it are complete, requests were
\* issued for the first i tickers only, so one request at most is outstanding,
\* and the run moves on by one ticker at a time, with that ticker's pair pushed.
C18_Sequential ==
    /\ [](Running =>
            /\ Len(run.analysisResults) = run.i - 1
            /\ Len(run.requested) - Len(run.analysisResults) <= 1
            /\ KeysPresent => run.requested = SubSeq(run.tickers, 1, run.i)
            /\ ~KeysPresent => run.requested = <<>>)
    /\ [][(Running /\ Running' /\ run'.i # run.i) =>
            /\ run'.i = run.i + 1
            /\ Len(run'.analysisResults) = run.i]_vars

\* the request of the second ticker is outstanding, the first pair is complete
C18_Witness ==
    /\ run.pc = "awaitFetch"
    /\ run.i = 2
    /\ run.requested = <<"AAPL", "TSLA">>
    /\ Len(run.analysisResults) = 1
    /\ run.analysisResults[1].stockData.ticker = "AAPL"

\* C19: whenever no run is in progress, every displayed result belongs to a
\* ticker that is in the watchlist (removing a ticker removes its result).
C19_ResultsBelongToWatchlist ==
    ~Running =>
        \A k \in 1..Len(results) :
            \E t \in Range(tickers) : results[k].stockData.ticker = ToUpperCase(t)

\* C21: a run works on the watchlist as it was when the run started: a change
\* of the watchlist while the run is in progress changes neither the run (its
\* tickers, its position, what it has gathered) nor the displayed results, and
\* the run that completes publishes one entry per ticker of that watchlist, in
\* its order.
C21_RunUsesStartWatchlist ==
    /\ [][(~Running /\ Running') => run'.tickers = tickers]_vars
    /\ [][(Running /\ tickers' # tickers) => (run' = run /\ results' = results)]_vars
    /\ [](run.pc = "complete" =>
            /\ results = run.analysisResults
            /\ [k \in 1..Len(results) |-> results[k].stockData.ticker] = run.tickers)

\* the run started on AAPL and TSLA is at its second ticker, and AAPL has been
\* removed from the watchlist since
C21_Witness ==
    /\ Running
    /\ run.i = 2
    /\ run.tickers = <<"AAPL", "TSLA">>
    /\ tickers = <<"TSLA">>
    /\ Len(run.analysisResults) = 1
    /\ run.analysisResults[1].stockData.ticker = "AAPL"

\* C22: in every state of the multi-ticker component a non-null error comes
\* with an empty result list.
C22_ErrorMeansNoResults ==
    error # Null => results = <<>>

\* the second ticker of a run has failed after the first pair was gathered
C22_Witness ==
    /\ run.pc = "failed"
    /\ run.i = 2
    /\ Len(run.analysisResults) = 1
    /\ error # Null
    /\ results = <<>>

----------------------------------------------------------------------------
(* src/unnamed/part_000: the single-ticker StockAnalyzer component *)

\* handleAnalyze invocations that may be suspended at once
MaxInFlight == 2

\* line 48: POLYGON_API_KEY && OPENAI_API_KEY
SoloKeysPresent == env.polygon /\ env.openai

\* the model endpoint's answers during a run
SoloChatResponses ==
    {ChatResponse("not_ok", "object", FALSE, NonObjectReply("null")),
     ChatResponse("ok", "object", TRUE,
                  ModelReply(Str("BUY"), Num(72500), Undefined, Undefined, Undefined)),
     ChatResponse("ok", "object", TRUE,
                  ModelReply(Str("HOLD"), Num(150000), Str("Momentum is solid."),
                             Str("LOW"), Num(155000)))}

\* what the component displays: the snapshot and its recommendation
SoloShown == <<solo.stockData, solo.aiRecommendation>>

RemoveAt(list, k) == SubSeq(list, 1, k - 1) \o SubSeq(list, k + 1, Len(list))

\* line 131: onChange={(e) => setTicker(e.target.value.toUpperCase())}
soloOnChange ==
    /\ \E text \in InputTexts :
          solo' = [solo EXCEPT !.ticker = ToUpperCase(text),
                               !.event = [kind |-> "typed", before |-> SoloShown]]
    /\ UNCHANGED <<call, multiVars, env, image>>

\* The invocation suspended at its first await (line 53 or line 59)
SoloSuspend(tk, d) ==
    IF SoloKeysPresent
    THEN [pc |-> "awaitFetch", ticker |-> tk, stockData |-> Undefined, before |-> SoloShown]
    ELSE [pc |-> "awaitDelay", ticker |-> tk,
          stockData |-> createMockStockData(tk, d[1], d[2], d[3]), before |-> SoloShown]

\* handleAnalyze testing the ticker only after lines 39-42 have run
soloHandleAnalyzeLateTest ==
    /\ Len(solo.runs) < MaxInFlight
    /\ IF Trim(solo.ticker) = ""
       THEN solo' = [solo EXCEPT !.loading = TRUE,
                                 !.error = Null,
                                 !.stockData = Null,
                                 !.aiRecommendation = Null,
                                 !.toast = "Please enter a stock ticker symbol",
                                 !.event = [kind |-> "refused", before |-> SoloShown]]
       ELSE \E d \in RunSnapshotDraws :
               solo' = [solo EXCEPT !.loading = TRUE,
                                    !.error = Null,
                                    !.stockData = Null,
                                    !.aiRecommendation = Null,
                                    !.runs = Append(@, SoloSuspend(solo.ticker, d)),
                                    !.event = [kind |-> "started", before |-> SoloShown]]
    /\ UNCHANGED <<call, multiVars, env, image>>

\* handleAnalyze keeping what is displayed while the new run is under way
soloHandleAnalyzeKeepShown ==
    /\ Len(solo.runs) < MaxInFlight
    /\ IF Trim(solo.ticker) = ""
       THEN solo' = [solo EXCEPT !.toast = "Please enter a stock ticker symbol",
                                 !.event = [kind |-> "refused", before |-> SoloShown]]
       ELSE \E d \in RunSnapshotDraws :
               solo' = [solo EXCEPT !.loading = TRUE,
                                    !.error = Null,
                                    !.runs = Append(@, SoloSuspend(solo.ticker, d)),
                                    !.event = [kind |-> "started", before |-> SoloShown]]
    /\ UNCHANGED <<call, multiVars, env, image>>

\* handleAnalyze, lines 29-59, up to its first await
soloHandleAnalyze ==
    /\ Len(solo.runs) < MaxInFlight
    /\ IF Trim(solo.ticker) = ""
       THEN solo' = [solo EXCEPT !.toast = "Please enter a stock ticker symbol",
                                 !.event = [kind |-> "refused", before |-> SoloShown]]
       ELSE \E d \in RunSnapshotDraws :
               solo' = [solo EXCEPT !.loading = TRUE,
                                    !.error = Null,
                                    !.stockData = Null,
                                    !.aiRecommendation = Null,
                                    !.runs = Append(@, SoloSuspend(solo.ticker, d)),
                                    !.event = [kind |-> "started", before |-> SoloShown]]
    /\ UNCHANGED <<call, multiVars, env, image>>

\* lines 135-143: the Generate Report button, disabled while loading
soloClick == ~solo.loading /\ soloHandleAnalyze

\* line 133: onKeyPress={(e) => e.key === "Enter" && handleAnalyze()}
soloEnter == soloHandleAnalyze

\* lines 70-80: the catch and finally blocks of invocation k
SoloFail(k, message) ==
    solo' = [solo EXCEPT !.error = message,
                         !.toast = "Unable to fetch stock data or generate recommendation",
                         !.loading = FALSE,
                         !.runs = RemoveAt(@, k),
                         !.event = [kind |-> "failed", before |-> solo.runs[k].before]]

\* lines 63-69 and 78-80: invocation k publishes its result
SoloComplete(k, stockData, recommendation) ==
    solo' = [solo EXCEPT !.stockData = stockData,
                         !.aiRecommendation = recommendation,
                         !.toast = "Generated recommendation",
                         !.loading = FALSE,
                         !.runs = RemoveAt(@, k),
                         !.event = [kind |-> "complete", before |-> solo.runs[k].before]]

\* line 53 resumes with the vendor's answer; line 54 then calls
\* getStockRecommendation, which throws at once or issues its request
soloResumeFetch ==
    /\ \E k \in 1..Len(solo.runs), resp \in RunVendorResponses :
          /\ solo.runs[k].pc = "awaitFetch"
          /\ LET sd == getStockData(solo.runs[k].ticker, resp)
             IN  IF sd.threw THEN SoloFail(k, sd.message)
                 ELSE IF ~PromptBuilds(sd.value)
                 THEN SoloFail(k, getStockRecommendation(sd.value, CHOOSE r \in SoloChatResponses : TRUE).message)
                 ELSE solo' = [solo EXCEPT !.runs[k].pc = "awaitRecommendation",
                                           !.runs[k].stockData = sd.value,
                                           !.event = [kind |-> "asked", before |-> SoloShown]]
    /\ UNCHANGED <<call, multiVars, env, image>>

\* line 54 resumes with the model endpoint's answer
soloResumeRecommendation ==
    /\ \E k \in 1..Len(solo.runs), resp \in SoloChatResponses :
          /\ solo.runs[k].pc = "awaitRecommendation"
          /\ LET rec == getStockRecommendation(solo.runs[k].stockData, resp)
             IN  IF rec.threw THEN SoloFail(k, rec.message)
                 ELSE SoloComplete(k, solo.runs[k].stockData, rec.value)
    /\ UNCHANGED <<call, multiVars, env, image>>

\* the timer of line 59 fires (timers of one delay fire in the order they were
\* set) and line 60 runs
soloResumeDelay ==
    /\ Len(solo.runs) > 0
    /\ solo.runs[1].pc = "awaitDelay"
    /\ \E d \in RunRecommendationDraws :
          LET rec == createMockRecommendation(solo.runs[1].stockData, d[1], d[2], d[3], d[4])
          IN  IF rec.threw THEN SoloFail(1, rec.message)
              ELSE SoloComplete(1, solo.runs[1].stockData, rec.value)
    /\ UNCHANGED <<call, multiVars, env, image>>

InitSingle ==
    /\ call = NoCall
    /\ ticker = ""
    /\ tickers = <<>>
    /\ loading = FALSE
    /\ results = <<>>
    /\ error = Null
    /\ toast = ""
    /\ run = NoRun
    /\ env \in [polygon : BOOLEAN, openai : BOOLEAN]
    /\ solo = SoloMounted
    /\ image = ImageMounted(1)

NextSingle ==
    \/ soloOnChange
    \/ soloClick
    \/ soloEnter
    \/ soloResumeFetch
    \/ soloResumeRecommendation
    \/ soloResumeDelay

SpecSingle == InitSingle /\ [][NextSingle]_vars

----------------------------------------------------------------------------
(* Claims about the single-ticker component *)

C16_RunStateMachine ==
    /\ Len(solo.runs) > 0 => solo.loading
    /\ solo.event.kind = "complete" =>
          /\ solo.stockData # Null /\ solo.aiRecommendation # Null
          /\ solo.error = Null
          /\ ~solo.loading
    /\ solo.event.kind = "failed" => solo.error # Null /\ ~solo.loading

\* C17: at no time are two runs in progress at once, whatever the user clicks
\* or presses.
C17_OneRunAtATime ==
    Len(solo.runs) <= 1

----------------------------------------------------------------------------
(* src/src/components/ImageGeneration.tsx: the two copies of the component *)

\* attempts of one behaviour
MaxAttempts == 3

\* what the user can type into the prompt input
Prompts == {"", "a cat", "a dog"}

\* A part of the model's answer: its inlineData?.data
TextPart == [data |-> Undefined]
ImagePart(b64) == [data |-> Str(b64)]

\* The parsed body of the response: hasCandidates tells whether
\* result?.candidates?.[0]?.content?.parts is there, parts are its parts
GenerateBody(hasCandidates, parts) == [hasCandidates |-> hasCandidates, parts |-> parts]

\* the bodies the endpoint answers with (an error body has no candidates)
GenerateBodies ==
    {GenerateBody(FALSE, <<>>),
     GenerateBody(TRUE, <<TextPart>>),
     GenerateBody(TRUE, <<ImagePart("iVBORw0KGgo")>>),
     GenerateBody(TRUE, <<TextPart, ImagePart("R0lGODlh")>>),
     GenerateBody(TRUE, <<TextPart, ImagePart("")>>)}

\* line 43: result?.candidates?.[0]?.content?.parts?.[1]?.inlineData?.data in
\* the first copy; line 126: parts?.[0] in the second
B64(copy, result) ==
    LET k == IF copy = 1 THEN 2 ELSE 1
    IN  IF result.hasCandidates /\ k <= Len(result.parts)
        THEN result.parts[k].data ELSE Undefined

\* lines 47 and 129: `data:image/png;base64,${b64}`
DataUrl(b64) == [t |-> "string", n |-> 0, s |-> b64.s, scheme |-> "data:image/png;base64,"]

\* lines 75 and 157: onChange={(e) => setPrompt(e.target.value)}
imageOnChange ==
    /\ \E text \in Prompts : image' = [image EXCEPT !.prompt = text]
    /\ UNCHANGED <<call, multiVars, env, solo>>

\* handleGenerateImage, lines 20-38 and 103-121, from the click of the Generate
\* button (enabled by lines 82 and 165) up to the await of fetch
handleGenerateImage ==
    /\ ~(image.loading \/ image.prompt = "")
    /\ image.attempts < MaxAttempts
    /\ image' = [image EXCEPT !.loading = TRUE, !.pc = "awaitFetch", !.attempts = @ + 1]
    /\ UNCHANGED <<call, multiVars, env, solo>>

\* lines 23-40 and 106-123: fetch settles; a rejection (network error) leaves
\* the function at line 23 with its promise rejected, nothing catches it
resumeFetchImage ==
    /\ image.pc = "awaitFetch"
    /\ \/ image' = [image EXCEPT !.pc = "rejected at fetch"]
       \/ image' = [image EXCEPT !.pc = "awaitJson"]
    /\ UNCHANGED <<call, multiVars, env, solo>>

\* lines 40-53 and 123-135: response.json() settles; a rejection (a body that
\* does not parse) leaves the function at line 40, otherwise it runs to its end
resumeJsonImage ==
    /\ image.pc = "awaitJson"
    /\ \/ image' = [image EXCEPT !.pc = "rejected at json"]
       \/ \E result \in GenerateBodies :
             LET b64 == B64(image.copy, result)
             IN  IF Truthy(b64)
                 THEN image' = [image EXCEPT !.imageUrl = DataUrl(b64),
                                             !.loading = FALSE, !.pc = "ended with image"]
                 ELSE image' = [image EXCEPT !.loading = FALSE, !.pc = "ended without image"]
    /\ UNCHANGED <<call, multiVars, env, solo>>

InitImage ==
    /\ call = NoCall
    /\ ticker = ""
    /\ tickers = <<>>
    /\ loading = FALSE
    /\ results = <<>>
    /\ error = Null
    /\ toast = ""
    /\ run = NoRun
    /\ env = [polygon |-> FALSE, openai |-> FALSE]
    /\ solo = SoloMounted
    /\ \E copy \in {1, 2} : image = ImageMounted(copy)

NextImage ==
    \/ imageOnChange
    \/ handleGenerateImage
    \/ resumeFetchImage
    \/ resumeJsonImage

SpecImage == InitImage /\ [][NextImage]_vars

\* the invocation of handleGenerateImage has come to an end, one way or another
AttemptEnded == image.pc \notin {"idle", "awaitFetch", "awaitJson"}

\* C24: once an invocation of handleGenerateImage has ended, by running to its
\* end with or without an image or by a rejected request or body, loading is
\* false again.
C24_LoadingClearedWhenEnded ==
    AttemptEnded => ~image.loading

====
